---- MODULE Spec2Model ----
(***************************************************************************)
(* State-machine model of cumulus/storage.py (django-cumulus):             *)
(* CloudFilesStorage, a Django storage backend over a Rackspace Cloud      *)
(* Files container reached through pyrax.                                  *)
(*                                                                         *)
(* One client instance is driven by one caller.  Every remote call (pyrax) *)
(* is one step whose outcome is chosen by the environment: it succeeds, or *)
(* it raises one of the exception classes the code distinguishes.          *)
(***************************************************************************)
EXTENDS Integers, Sequences, FiniteSets, TLC

(***************************************************************************)
(* Bounds of the model.                                                    *)
(***************************************************************************)
MaxRetriesBound == 2   \* max_retries is configured in 0..MaxRetriesBound
NumSums == 2           \* number of distinct checksum values
MaxContentLen == 1     \* longest content passed to save
MaxResolveFail == 2    \* failed container resolutions the environment may inject
MaxRules == 2          \* longest header-rule table
MaxBytes == 2          \* largest size of the object a stream reads
MaxChunks == 2         \* non-empty chunks the remote store hands to one chunks() call

(***************************************************************************)
(* Names, paths, contents.  A name is a sequence of characters.            *)
(***************************************************************************)
Sep == "/"

Names == { <<"a", "b">>, <<"a", "/", "b">> }

Paths == { <<>>, <<"a">>, <<"a", "/">>, <<"b">> }

Containers == { "media" }

Bytes == 0 .. 1

Contents == UNION { [1 .. k -> Bytes] : k \in 0 .. MaxContentLen }

Absent == -1           \* the container holds no object of that name

Etags == 0 .. NumSums  \* 0 is an empty (falsy) etag

(***************************************************************************)
(* Exception classes.  Transport is the tuple caught at lines 112 and 203; *)
(* the upload loop (line 171) also catches socket.error.  "Other" stands   *)
(* for every exception no clause of the module names (NoSuchContainer,     *)
(* authentication failures, ...).                                          *)
(***************************************************************************)
Transport == { "HTTPException", "SSLError", "ServiceResponseFailure" }

Failures == Transport \cup { "socket.error", "Other" }

Caught(kind) ==
  IF kind = "upload" THEN Transport \cup { "socket.error" } ELSE Transport

(***************************************************************************)
(* Container handles and public URIs.  NoAttr / NoUri stand for "the       *)
(* instance has no such attribute" (the hasattr tests of lines 79, 89, 97).*)
(***************************************************************************)
NoAttr == [name |-> "", src |-> "unset", id |-> 0]

Resolved(cname, k) == [name |-> cname, src |-> "get_container", id |-> k]

Given(cname) == [name |-> cname, src |-> "caller", id |-> 0]

NoUri == [kind |-> "unset", h |-> NoAttr]

ExplicitUri == [kind |-> "explicit", h |-> NoAttr]

EmptyDict == [k \in {} |-> 0]

TTL == 86400           \* CUMULUS['TTL']

NoResult ==
  [kind |-> "none", exc |-> "none", name |-> <<>>, bool |-> FALSE,
   dirs |-> {}, files |-> {}, headers |-> EmptyDict, uri |-> NoUri,
   h |-> NoAttr]

NoSent == [etag |-> 0, name |-> <<>>, headers |-> EmptyDict]

None == "None"         \* Python's None in a string-valued attribute

Unsized == -1          \* the stream has no _size attribute

NoPos == -1            \* the stream has no _pos attribute

Threads == { 1, 2 }

VARIABLES
  max_retries,             \* self.max_retries
  use_ssl,                 \* self.use_ssl
  container_name,          \* self.container_name
  header_patterns,         \* HEADER_PATTERNS
  _container,              \* self._container, NoAttr while unset
  _container_public_uri,   \* self._container_public_uri, NoUri while unset
  remote,                  \* remote store: container -> name -> etag or Absent
  cdn_ttl,                 \* remote store: container -> TTL it is public with, 0 if not
  pc,                      \* position of the caller in the running operation
  op,                      \* the running (or last finished) operation
  name,                    \* its name / path argument
  content,                 \* save: the bytes of the content
  content_pos,             \* save: read position of the content stream
  content_closed,          \* save: the content stream has been closed
  etag,                    \* save: local checksum (line 136), 0 outside save
  upload,                  \* save: the upload flag (lines 135, 143)
  loop,                    \* the running retry loop: kind, tries, logged, end, last
  obs,                     \* observer of the loop: attempts, failures
  cloud_obj,               \* etag of the object _get_cloud_obj returned, Absent if none
  result,                  \* outcome of the operation
  uploads,                 \* upload_file calls issued by the running save
  sent,                    \* arguments of the last upload_file call
  resolveCalls,            \* pyrax.cloudfiles.get_container calls made
  resolveFails,            \* of which failed
  setCalled,               \* _set_container has been called
  username,                \* self.username
  api_key,                 \* self.api_key
  settings_uri,            \* 'CONTAINER_URI' in CUMULUS
  _size,                   \* stream: self._size, Unsized while unset
  _file,                   \* stream: self._file is set
  _pos,                    \* stream: self._pos, NoPos while unset
  total_bytes,             \* remote store: size of the object the stream reads
  want,                    \* stream: the property whose fetch is running
  data,                    \* stream: length of the data the operation got
  gets,                    \* stream: get() calls made by the running operation
  num_bytes,               \* stream: read's num_bytes (argument, then clamped)
  tpc,                     \* threads: position of each thread
  top,                     \* thread: the property the thread reads
  tret,                    \* threads: handle each thread's access returned
  overlap                  \* threads: an access began while another was under way

vars ==
  << max_retries, use_ssl, container_name, header_patterns, _container,
     _container_public_uri, remote, cdn_ttl, pc, op, name, content,
     content_pos, content_closed, etag, upload, loop,
     obs, cloud_obj, result, uploads, sent, resolveCalls, resolveFails,
     setCalled, username, api_key, settings_uri, _size, _file, _pos,
     total_bytes, want, data, gets, num_bytes, tpc, top, tret, overlap >>

ctorVars == << username, api_key, settings_uri >>

streamVars == << _size, _file, _pos, total_bytes, want, data, gets, num_bytes >>

raceVars == << tpc, top, tret, overlap >>

extra == << ctorVars, streamVars, raceVars >>

config == << max_retries, use_ssl, container_name, header_patterns, cdn_ttl >>

saveVars ==
  << content, content_pos, content_closed, etag, upload, uploads, sent >>

history == << resolveCalls, resolveFails, setCalled >>

(***************************************************************************)
(* Parts of the initial states: a constructed client (lines 44-65), a new  *)
(* CloudFilesStorageFile (lines 310-313), no thread at work.               *)
(***************************************************************************)
Constructed ==
  username = "user" /\ api_key = "key" /\ settings_uri = FALSE

StreamNew ==
  /\ _size = Unsized /\ _file = FALSE /\ _pos = NoPos
  /\ want = "none" /\ data = 0 /\ gets = 0 /\ num_bytes = 0

NoThreads ==
  /\ tpc = [t \in Threads |-> "off"]
  /\ top = [t \in Threads |-> "none"]
  /\ tret = [t \in Threads |-> NoAttr]
  /\ overlap = FALSE

(***************************************************************************)
(* Pure helpers.                                                           *)
(***************************************************************************)
RECURSIVE SumBytes(_)
SumBytes(c) == IF c = <<>> THEN 0 ELSE Head(c) + SumBytes(Tail(c))

\* pyrax.utils.get_checksum: a digest of the bytes, never empty.
Checksum(c) == 1 + ((SumBytes(c) + Len(c)) % NumSums)

StartsWith(n, p) == Len(p) <= Len(n) /\ SubSeq(n, 1, Len(p)) = p

NewLoop(kind) ==
  [kind |-> kind, tries |-> 0, logged |-> 0, end |-> "running", last |-> "none"]

NoLoop ==
  [kind |-> "none", tries |-> 0, logged |-> 0, end |-> "none", last |-> "none"]

NewObs == [attempts |-> 0, failures |-> 0]

Observe(o, kind, e) ==
  [attempts |-> o.attempts + 1,
   failures |-> o.failures + (IF e \in Caught(kind) THEN 1 ELSE 0)]

(***************************************************************************)
(* _get_container (lines 78-81).  r is the outcome of the remote           *)
(* get_container call, made only while the handle is not cached.           *)
(***************************************************************************)
\* HasContainer that never finds the cached handle.
HasContainerNever == FALSE

HasContainer == _container # NoAttr

ResolveOutcomes ==
  IF HasContainer THEN { "ok" }
  ELSE IF resolveFails < MaxResolveFail THEN { "ok" } \cup Failures
  ELSE { "ok" }

ContainerAfter(r) ==
  IF HasContainer THEN _container
  ELSE IF r = "ok" THEN Resolved(container_name, resolveCalls + 1)
  ELSE NoAttr

ResolveRaised(r) == ~HasContainer /\ r # "ok"

GetContainer(r) ==
  /\ _container' = ContainerAfter(r)
  /\ resolveCalls' = IF HasContainer THEN resolveCalls ELSE resolveCalls + 1
  /\ resolveFails' = IF ResolveRaised(r) THEN resolveFails + 1 ELSE resolveFails

\* Outcomes of a remote call on object n of container c.
ObjectOutcomes(c, n) ==
  (IF remote[c][n] # Absent THEN { "ok" } ELSE { "NoSuchObject" }) \cup Failures

Idle == pc \in { "idle", "done" }

(***************************************************************************)
(* _get_cloud_obj (lines 104-117): one iteration of the loop.              *)
(***************************************************************************)
\* FetchStep that logs the failure before it tests the retry bound.
FetchStepLogFirst(l, e) ==
  IF e = "ok" THEN [l EXCEPT !.end = "ok", !.last = e]
  ELSE IF e \in Caught("fetch") THEN
    IF l.tries >= max_retries
      THEN [l EXCEPT !.end = "raise", !.logged = @ + 1, !.last = e]
      ELSE [l EXCEPT !.tries = @ + 1, !.logged = @ + 1, !.last = e]
  ELSE [l EXCEPT !.end = "raise", !.last = e]

\* FetchStep with a bare except: every exception is retried.
FetchStepCatchAll(l, e) ==
  IF e = "ok" THEN [l EXCEPT !.end = "ok", !.last = e]
  ELSE IF l.tries >= max_retries
    THEN [l EXCEPT !.end = "raise", !.last = e]
    ELSE [l EXCEPT !.tries = @ + 1, !.logged = @ + 1, !.last = e]

FetchStep(l, e) ==
  IF e = "ok" THEN [l EXCEPT !.end = "ok", !.last = e]
  ELSE IF e \in Caught("fetch") THEN
    IF l.tries >= max_retries
      THEN [l EXCEPT !.end = "raise", !.last = e]
      ELSE [l EXCEPT !.tries = @ + 1, !.logged = @ + 1, !.last = e]
  ELSE [l EXCEPT !.end = "raise", !.last = e]

FetchAttempt ==
  /\ pc = "fetch"
  /\ \E r \in ResolveOutcomes :
       LET h == ContainerAfter(r) IN
       \E e \in (IF ResolveRaised(r) THEN { r } ELSE ObjectOutcomes(h.name, name)) :
         /\ GetContainer(r)
         /\ loop' = FetchStep(loop, e)
         /\ obs' = Observe(obs, "fetch", e)
         /\ cloud_obj' = IF e = "ok" THEN remote[h.name][name] ELSE cloud_obj
         /\ pc' = IF loop'.end = "running" THEN "fetch" ELSE "fetched"
  /\ UNCHANGED << config, _container_public_uri, remote, op, name, saveVars,
                  result, setCalled >>
  /\ UNCHANGED extra

(***************************************************************************)
(* exists (lines 210-219).                                                 *)
(***************************************************************************)
BeginExists(n) ==
  /\ Idle
  /\ op' = "exists" /\ name' = n /\ pc' = "fetch"
  /\ loop' = NewLoop("fetch") /\ obs' = NewObs
  /\ result' = NoResult
  /\ content' = <<>> /\ content_pos' = 0 /\ content_closed' = FALSE
  /\ etag' = 0 /\ upload' = FALSE /\ uploads' = 0
  /\ sent' = NoSent
  /\ cloud_obj' = Absent
  /\ UNCHANGED << config, _container, _container_public_uri, remote, history >>
  /\ UNCHANGED extra

\* ExistsResult with a bare except: every error answers False.
ExistsResultSwallowAll(l) ==
  IF l.end = "ok" THEN [NoResult EXCEPT !.kind = "return", !.bool = TRUE]
  ELSE [NoResult EXCEPT !.kind = "return", !.bool = FALSE]

ExistsResult(l) ==
  IF l.end = "ok" THEN [NoResult EXCEPT !.kind = "return", !.bool = TRUE]
  ELSE IF l.last = "NoSuchObject"
    THEN [NoResult EXCEPT !.kind = "return", !.bool = FALSE]
  ELSE [NoResult EXCEPT !.kind = "raise", !.exc = l.last]

ExistsReturn ==
  /\ pc = "fetched" /\ op = "exists"
  /\ result' = ExistsResult(loop)
  /\ pc' = "done"
  /\ UNCHANGED << config, _container, _container_public_uri, remote, op, name,
                  saveVars, loop, obs, cloud_obj, history >>
  /\ UNCHANGED extra

(***************************************************************************)
(* delete (lines 191-208).                                                 *)
(***************************************************************************)
\* DeleteStep without the NoSuchObject clause of lines 200-202.
DeleteStepNoSwallow(l, e) ==
  IF e = "ok" THEN [l EXCEPT !.end = "ok", !.last = e]
  ELSE IF e \in Caught("delete") THEN
    IF l.tries >= max_retries
      THEN [l EXCEPT !.end = "raise", !.last = e]
      ELSE [l EXCEPT !.tries = @ + 1, !.logged = @ + 1, !.last = e]
  ELSE [l EXCEPT !.end = "raise", !.last = e]

DeleteStep(l, e) ==
  IF e = "ok" THEN [l EXCEPT !.end = "ok", !.last = e]
  ELSE IF e = "NoSuchObject" THEN [l EXCEPT !.end = "ok", !.last = e]
  ELSE IF e \in Caught("delete") THEN
    IF l.tries >= max_retries
      THEN [l EXCEPT !.end = "raise", !.last = e]
      ELSE [l EXCEPT !.tries = @ + 1, !.logged = @ + 1, !.last = e]
  ELSE [l EXCEPT !.end = "raise", !.last = e]

BeginDelete(n) ==
  /\ Idle
  /\ op' = "delete" /\ name' = n /\ pc' = "delete"
  /\ loop' = NewLoop("delete") /\ obs' = NewObs
  /\ result' = NoResult
  /\ content' = <<>> /\ content_pos' = 0 /\ content_closed' = FALSE
  /\ etag' = 0 /\ upload' = FALSE /\ uploads' = 0
  /\ sent' = NoSent
  /\ cloud_obj' = Absent
  /\ UNCHANGED << config, _container, _container_public_uri, remote, history >>
  /\ UNCHANGED extra

DeleteAttempt ==
  /\ pc = "delete"
  /\ \E r \in ResolveOutcomes :
       LET h == ContainerAfter(r) IN
       \E e \in (IF ResolveRaised(r) THEN { r } ELSE ObjectOutcomes(h.name, name)) :
         /\ GetContainer(r)
         /\ loop' = DeleteStep(loop, e)
         /\ obs' = Observe(obs, "delete", e)
         /\ remote' = IF e = "ok"
                        THEN [remote EXCEPT ![h.name][name] = Absent]
                        ELSE remote
         /\ pc' = IF loop'.end = "running" THEN "delete" ELSE "done"
         /\ result' = IF loop'.end = "ok"
                        THEN [NoResult EXCEPT !.kind = "return"]
                      ELSE IF loop'.end = "raise"
                        THEN [NoResult EXCEPT !.kind = "raise", !.exc = e]
                      ELSE result
  /\ UNCHANGED << config, _container_public_uri, op, name, saveVars, cloud_obj,
                  setCalled >>
  /\ UNCHANGED extra

(***************************************************************************)
(* _headers_for (lines 184-189): fold over the rule table in order; a rule *)
(* is a pair <<pattern, pattern_headers>>.  A pattern is a sequence of     *)
(* characters in which "." matches any one character; re.match anchors the *)
(* pattern at the start of the name only.                                  *)
(***************************************************************************)
Match(pattern, n) ==
  /\ Len(pattern) <= Len(n)
  /\ \A i \in 1 .. Len(pattern) : pattern[i] = "." \/ pattern[i] = n[i]

\* Update that keeps the value already present (setdefault per key).
UpdateKeepFirst(d1, d2) ==
  [k \in DOMAIN d1 \cup DOMAIN d2 |-> IF k \in DOMAIN d1 THEN d1[k] ELSE d2[k]]

\* dict.update: the keys of d2 overwrite those of d1.
Update(d1, d2) ==
  [k \in DOMAIN d1 \cup DOMAIN d2 |-> IF k \in DOMAIN d2 THEN d2[k] ELSE d1[k]]

RECURSIVE HeadersFrom(_, _, _)
HeadersFrom(headers, n, patterns) ==
  IF patterns = <<>> THEN headers
  ELSE HeadersFrom(IF Match(Head(patterns)[1], n)
                     THEN Update(headers, Head(patterns)[2])
                     ELSE headers,
                   n, Tail(patterns))

_headers_for(n, patterns) == HeadersFrom(EmptyDict, n, patterns)

(***************************************************************************)
(* _save (lines 125-182).                                                  *)
(***************************************************************************)
BeginSave(n, c) ==
  /\ Idle
  /\ op' = "save" /\ name' = n /\ content' = c
  /\ upload' = TRUE
  /\ etag' = Checksum(c)
  /\ \E p \in 0 .. Len(c) : content_pos' = p   \* wherever get_checksum leaves it
  /\ content_closed' = FALSE
  /\ pc' = "fetch"
  /\ loop' = NewLoop("fetch") /\ obs' = NewObs
  /\ result' = NoResult /\ uploads' = 0 /\ sent' = NoSent
  /\ cloud_obj' = Absent
  /\ UNCHANGED << config, _container, _container_public_uri, remote, history >>
  /\ UNCHANGED extra

\* NeedUpload with the test of line 142 inverted (!= for ==): the upload is
\* skipped when the checksums differ and made when they are equal.
NeedUploadInverted(l, remoteEtag, localEtag) ==
  IF l.end = "ok" /\ remoteEtag # 0 /\ remoteEtag # localEtag
    THEN FALSE
    ELSE TRUE

\* lines 137-143: the value of the upload flag after the metadata fetch.
NeedUpload(l, remoteEtag, localEtag) ==
  IF l.end = "ok" /\ remoteEtag # 0 /\ remoteEtag = localEtag
    THEN FALSE
    ELSE TRUE

\* lines 137-145 and 182: the fetch raised something else than NoSuchObject,
\* or the upload is skipped and name is returned, or the upload loop starts.
SaveDecide ==
  /\ pc = "fetched" /\ op = "save"
  /\ IF loop.end = "raise" /\ loop.last # "NoSuchObject"
       THEN /\ result' = [NoResult EXCEPT !.kind = "raise", !.exc = loop.last]
            /\ pc' = "done"
            /\ UNCHANGED << upload, loop, obs, content_pos >>
       ELSE /\ upload' = NeedUpload(loop, cloud_obj, etag)
            /\ IF upload'
                 THEN /\ pc' = "upload"
                      /\ loop' = NewLoop("upload") /\ obs' = NewObs
                      /\ result' = result
                      /\ content_pos' = 0          \* content.open(), line 146
                 ELSE /\ pc' = "done"
                      /\ result' = [NoResult EXCEPT !.kind = "return", !.name = name]
                      /\ UNCHANGED << loop, obs, content_pos >>
  /\ UNCHANGED << config, _container, _container_public_uri, remote, op, name,
                  content, content_closed, etag, uploads, sent, cloud_obj,
                  history >>
  /\ UNCHANGED extra

\* UploadStep that gives up one failure late (> for >= at line 172).
UploadStepOneMore(l, e) ==
  IF e = "ok" THEN [l EXCEPT !.end = "ok", !.last = e]
  ELSE IF e \in Caught("upload") THEN
    IF l.tries > max_retries
      THEN [l EXCEPT !.end = "raise", !.last = e]
      ELSE [l EXCEPT !.tries = @ + 1, !.logged = @ + 1, !.last = e]
  ELSE [l EXCEPT !.end = "raise", !.last = e]

\* UploadArgs carrying the checksum the remote object reported.
UploadArgsRemoteEtag == [etag |-> cloud_obj, name |-> name,
                         headers |-> _headers_for(name, header_patterns)]

\* lines 160-181: one iteration of the upload loop.
UploadStep(l, e) ==
  IF e = "ok" THEN [l EXCEPT !.end = "ok", !.last = e]
  ELSE IF e \in Caught("upload") THEN
    IF l.tries >= max_retries
      THEN [l EXCEPT !.end = "raise", !.last = e]
      ELSE [l EXCEPT !.tries = @ + 1, !.logged = @ + 1, !.last = e]
  ELSE [l EXCEPT !.end = "raise", !.last = e]

\* lines 162-168: the arguments of the upload_file call.
UploadArgs == [etag |-> etag, name |-> name,
               headers |-> _headers_for(name, header_patterns)]

\* Positions upload_file may leave the stream at: its end when the call
\* succeeds, anywhere when it fails.
ReadPositions(e) ==
  IF e = "ok" THEN { Len(content) } ELSE 0 .. Len(content)

\* RewindOnRetry without the seek of lines 178-179.
NoRewind(l, p) == p

\* lines 177-179: content.seek(0) ends the handler of a failure that is
\* retried; l is the loop after the failure, p the position it left.
RewindOnRetry(l, p) == IF l.end = "running" THEN 0 ELSE p

\* lines 161-181: the else clause of the try statement runs only when the
\* try body runs off its end; the body leaves by break (line 170) when
\* upload_file returns and by the exception when it raises.
ElseClauseRuns(e) == FALSE

UploadAttempt ==
  /\ pc = "upload"
  /\ \E r \in ResolveOutcomes :
       LET h == ContainerAfter(r) IN
       \E e \in (IF ResolveRaised(r) THEN { r } ELSE { "ok" } \cup Failures) :
         /\ GetContainer(r)
         /\ loop' = UploadStep(loop, e)
         /\ obs' = Observe(obs, "upload", e)
         /\ uploads' = IF ResolveRaised(r) THEN uploads ELSE uploads + 1
         /\ sent' = IF ResolveRaised(r) THEN sent ELSE UploadArgs
         /\ remote' = IF e = "ok"
                        THEN [remote EXCEPT ![h.name][name] = UploadArgs.etag]
                        ELSE remote
         /\ pc' = IF loop'.end = "running" THEN "upload" ELSE "done"
         /\ result' = IF loop'.end = "ok"
                        THEN [NoResult EXCEPT !.kind = "return", !.name = name]
                      ELSE IF loop'.end = "raise"
                        THEN [NoResult EXCEPT !.kind = "raise", !.exc = e]
                      ELSE result
         /\ IF ResolveRaised(r)
              THEN content_pos' = RewindOnRetry(loop', content_pos)
              ELSE \E q \in ReadPositions(e) :
                     content_pos' = RewindOnRetry(loop', q)
         /\ content_closed' = IF ElseClauseRuns(e) THEN TRUE ELSE content_closed
  /\ UNCHANGED << config, _container_public_uri, op, name, content, etag, upload,
                  cloud_obj, setCalled >>
  /\ UNCHANGED extra

(***************************************************************************)
(* listdir (lines 228-237).  list_all(prefix) is the remote listing: the   *)
(* names of the container's objects that start with prefix.                *)
(***************************************************************************)
\* ListdirPrefix without the normalisation of lines 233-234.
ListdirPrefixRaw(path) == path

ListdirPrefix(path) ==
  IF path # <<>> /\ path[Len(path)] # Sep THEN Append(path, Sep) ELSE path

list_all(c, prefix) ==
  { n \in Names : remote[c][n] # Absent /\ StartsWith(n, prefix) }

ListdirResult(files) ==
  [NoResult EXCEPT !.kind = "return", !.dirs = {}, !.files = files]

Listdir(path) ==
  /\ Idle
  /\ op' = "listdir" /\ name' = path /\ pc' = "done"
  /\ \E r \in ResolveOutcomes :
       LET h == ContainerAfter(r) IN
       \E e \in (IF ResolveRaised(r) THEN { r } ELSE { "ok" } \cup Failures) :
         /\ GetContainer(r)
         /\ result' = IF e = "ok"
                        THEN ListdirResult(list_all(h.name, ListdirPrefix(path)))
                        ELSE [NoResult EXCEPT !.kind = "raise", !.exc = e]
  /\ loop' = NoLoop /\ obs' = NewObs /\ cloud_obj' = Absent
  /\ content' = <<>> /\ content_pos' = 0 /\ content_closed' = FALSE
  /\ etag' = 0 /\ upload' = FALSE /\ uploads' = 0
  /\ sent' = NoSent
  /\ UNCHANGED << config, _container_public_uri, remote, setCalled >>
  /\ UNCHANGED extra

(***************************************************************************)
(* The container property read by a caller (lines 78-81, 93).              *)
(***************************************************************************)
Container ==
  /\ Idle
  /\ op' = "container" /\ name' = <<>> /\ pc' = "done"
  /\ \E r \in ResolveOutcomes :
       /\ GetContainer(r)
       /\ result' = IF ResolveRaised(r)
                      THEN [NoResult EXCEPT !.kind = "raise", !.exc = r]
                      ELSE [NoResult EXCEPT !.kind = "return",
                                            !.h = ContainerAfter(r)]
  /\ loop' = NoLoop /\ obs' = NewObs /\ cloud_obj' = Absent
  /\ content' = <<>> /\ content_pos' = 0 /\ content_closed' = FALSE
  /\ etag' = 0 /\ upload' = FALSE /\ uploads' = 0
  /\ sent' = NoSent
  /\ UNCHANGED << config, _container_public_uri, remote, setCalled >>
  /\ UNCHANGED extra

(***************************************************************************)
(* _set_container (lines 83-93): the container property assigned.          *)
(***************************************************************************)
\* SetContainer without the delattr of lines 89-90.
SetContainerKeepUri(h) ==
  /\ Idle
  /\ op' = "set_container" /\ name' = <<>> /\ pc' = "done"
  /\ setCalled' = TRUE
  /\ \E e \in { "ok" } \cup Failures :
       IF e = "ok"
         THEN /\ cdn_ttl' = [cdn_ttl EXCEPT ![h.name] = TTL]
              /\ _container' = h
              /\ result' = [NoResult EXCEPT !.kind = "return", !.h = h]
              /\ UNCHANGED _container_public_uri
         ELSE /\ result' = [NoResult EXCEPT !.kind = "raise", !.exc = e, !.h = h]
              /\ UNCHANGED << cdn_ttl, _container_public_uri, _container >>
  /\ loop' = NoLoop /\ obs' = NewObs /\ cloud_obj' = Absent
  /\ content' = <<>> /\ content_pos' = 0 /\ content_closed' = FALSE
  /\ etag' = 0 /\ upload' = FALSE /\ uploads' = 0
  /\ sent' = NoSent
  /\ UNCHANGED << max_retries, use_ssl, container_name, header_patterns, remote,
                  resolveCalls, resolveFails >>
  /\ UNCHANGED extra

\* SetContainer that replaces the handle and drops the URI before it calls
\* make_container_public (line 88 moved after line 91).
SetContainerAssignFirst(h) ==
  /\ Idle
  /\ op' = "set_container" /\ name' = <<>> /\ pc' = "done"
  /\ setCalled' = TRUE
  /\ _container_public_uri' = NoUri
  /\ _container' = h
  /\ \E e \in { "ok" } \cup Failures :
       IF e = "ok"
         THEN /\ cdn_ttl' = [cdn_ttl EXCEPT ![h.name] = TTL]
              /\ result' = [NoResult EXCEPT !.kind = "return", !.h = h]
         ELSE /\ result' = [NoResult EXCEPT !.kind = "raise", !.exc = e, !.h = h]
              /\ UNCHANGED cdn_ttl
  /\ loop' = NoLoop /\ obs' = NewObs /\ cloud_obj' = Absent
  /\ content' = <<>> /\ content_pos' = 0 /\ content_closed' = FALSE
  /\ etag' = 0 /\ upload' = FALSE /\ uploads' = 0
  /\ sent' = NoSent
  /\ UNCHANGED << max_retries, use_ssl, container_name, header_patterns, remote,
                  resolveCalls, resolveFails >>
  /\ UNCHANGED extra

SetContainer(h) ==
  /\ Idle
  /\ op' = "set_container" /\ name' = <<>> /\ pc' = "done"
  /\ setCalled' = TRUE
  /\ \E e \in { "ok" } \cup Failures :
       IF e = "ok"
         THEN /\ cdn_ttl' = [cdn_ttl EXCEPT ![h.name] = TTL]
              /\ _container_public_uri' = NoUri
              /\ _container' = h
              /\ result' = [NoResult EXCEPT !.kind = "return", !.h = h]
         ELSE /\ result' = [NoResult EXCEPT !.kind = "raise", !.exc = e, !.h = h]
              /\ UNCHANGED << cdn_ttl, _container_public_uri, _container >>
  /\ loop' = NoLoop /\ obs' = NewObs /\ cloud_obj' = Absent
  /\ content' = <<>> /\ content_pos' = 0 /\ content_closed' = FALSE
  /\ etag' = 0 /\ upload' = FALSE /\ uploads' = 0
  /\ sent' = NoSent
  /\ UNCHANGED << max_retries, use_ssl, container_name, header_patterns, remote,
                  resolveCalls, resolveFails >>
  /\ UNCHANGED extra

(***************************************************************************)
(* container_url (lines 95-102) and url (lines 245-253).                   *)
(***************************************************************************)
CdnUri(h) == [kind |-> IF use_ssl THEN "cdn_ssl_uri" ELSE "cdn_uri", h |-> h]

Url(n) ==
  /\ Idle
  /\ op' = "url" /\ name' = n /\ pc' = "done"
  /\ IF _container_public_uri # NoUri
       THEN /\ result' = [NoResult EXCEPT !.kind = "return", !.name = n,
                                          !.uri = _container_public_uri]
            /\ UNCHANGED << _container, _container_public_uri, resolveCalls,
                            resolveFails >>
       ELSE \E r \in ResolveOutcomes :
              /\ GetContainer(r)
              /\ IF ResolveRaised(r)
                   THEN /\ result' = [NoResult EXCEPT !.kind = "raise", !.exc = r]
                        /\ UNCHANGED _container_public_uri
                   ELSE /\ _container_public_uri' = CdnUri(ContainerAfter(r))
                        /\ result' = [NoResult EXCEPT !.kind = "return", !.name = n,
                                        !.uri = CdnUri(ContainerAfter(r))]
  /\ loop' = NoLoop /\ obs' = NewObs /\ cloud_obj' = Absent
  /\ content' = <<>> /\ content_pos' = 0 /\ content_closed' = FALSE
  /\ etag' = 0 /\ upload' = FALSE /\ uploads' = 0
  /\ sent' = NoSent
  /\ UNCHANGED << config, remote, setCalled >>
  /\ UNCHANGED extra

(***************************************************************************)
(* Initial state: the instance after __init__ (lines 44-65), over every    *)
(* content of the configured container.                                    *)
(***************************************************************************)
Init ==
  /\ max_retries \in 0 .. MaxRetriesBound
  /\ use_ssl = FALSE
  /\ container_name = "media"
  /\ header_patterns = <<>>
  /\ _container = NoAttr
  /\ _container_public_uri = NoUri
  /\ remote \in [Containers -> [Names -> { Absent } \cup Etags]]
  /\ cdn_ttl = [c \in Containers |-> 0]
  /\ pc = "idle" /\ op = "none" /\ name = <<>>
  /\ content = <<>> /\ content_pos = 0 /\ content_closed = FALSE
  /\ etag = 0 /\ upload = FALSE
  /\ loop = NoLoop /\ obs = NewObs /\ cloud_obj = Absent
  /\ result = NoResult /\ uploads = 0 /\ sent = NoSent
  /\ resolveCalls = 0 /\ resolveFails = 0 /\ setCalled = FALSE
  /\ Constructed /\ StreamNew /\ total_bytes = 0 /\ NoThreads

Next ==
  \/ \E n \in Names : BeginExists(n)
  \/ FetchAttempt
  \/ ExistsReturn
  \/ \E n \in Names : BeginDelete(n)
  \/ DeleteAttempt
  \/ \E n \in Names, c \in Contents : BeginSave(n, c)
  \/ SaveDecide
  \/ UploadAttempt
  \/ \E p \in Paths : Listdir(p)

Spec == Init /\ [][Next]_vars

(***************************************************************************)
(* The same client with the container property and the public URI in play: *)
(* every operation above plus the ones that read or replace the handle.    *)
(***************************************************************************)
InitContainer ==
  /\ max_retries = 1
  /\ use_ssl \in BOOLEAN
  /\ container_name = "media"
  /\ header_patterns = <<>>
  /\ _container = NoAttr
  /\ _container_public_uri \in { NoUri, ExplicitUri }
  /\ remote = [c \in Containers |-> [n \in Names |->
                 IF c = "media" /\ n = <<"a", "b">> THEN 1 ELSE Absent]]
  /\ cdn_ttl = [c \in Containers |-> 0]
  /\ pc = "idle" /\ op = "none" /\ name = <<>>
  /\ content = <<>> /\ content_pos = 0 /\ content_closed = FALSE
  /\ etag = 0 /\ upload = FALSE
  /\ loop = NoLoop /\ obs = NewObs /\ cloud_obj = Absent
  /\ result = NoResult /\ uploads = 0 /\ sent = NoSent
  /\ resolveCalls = 0 /\ resolveFails = 0 /\ setCalled = FALSE
  /\ Constructed /\ StreamNew /\ total_bytes = 0 /\ NoThreads

NextContainer ==
  \/ Next
  \/ Container
  \/ \E c \in Containers : SetContainer(Given(c))
  \/ \E n \in Names : Url(n)

SpecContainer == InitContainer /\ [][NextContainer]_vars

(***************************************************************************)
(* _headers_for applied to a name under every rule table up to MaxRules    *)
(* rules.                                                                  *)
(***************************************************************************)
Patterns == { <<"a">>, <<"a", "/">>, <<".", "b">>, <<"b">> }

HeaderSets == { [X |-> 1], [X |-> 2, Y |-> 3], [Y |-> 1] }

HeaderKeys == { "X", "Y" }

RuleTables ==
  UNION { [1 .. k -> Patterns \X HeaderSets] : k \in 0 .. MaxRules }

HeadersFor(n) ==
  /\ Idle
  /\ op' = "_headers_for" /\ name' = n /\ pc' = "done"
  /\ result' = [NoResult EXCEPT !.kind = "return",
                                !.headers = _headers_for(n, header_patterns)]
  /\ loop' = NoLoop /\ obs' = NewObs /\ cloud_obj' = Absent
  /\ content' = <<>> /\ content_pos' = 0 /\ content_closed' = FALSE
  /\ etag' = 0 /\ upload' = FALSE /\ uploads' = 0
  /\ sent' = NoSent
  /\ UNCHANGED << config, _container, _container_public_uri, remote, history >>
  /\ UNCHANGED extra

InitHeaders ==
  /\ max_retries = 0
  /\ use_ssl = FALSE
  /\ container_name = "media"
  /\ header_patterns \in RuleTables
  /\ _container = NoAttr
  /\ _container_public_uri = NoUri
  /\ remote = [c \in Containers |-> [n \in Names |-> Absent]]
  /\ cdn_ttl = [c \in Containers |-> 0]
  /\ pc = "idle" /\ op = "none" /\ name = <<>>
  /\ content = <<>> /\ content_pos = 0 /\ content_closed = FALSE
  /\ etag = 0 /\ upload = FALSE
  /\ loop = NoLoop /\ obs = NewObs /\ cloud_obj = Absent
  /\ result = NoResult /\ uploads = 0 /\ sent = NoSent
  /\ resolveCalls = 0 /\ resolveFails = 0 /\ setCalled = FALSE
  /\ Constructed /\ StreamNew /\ total_bytes = 0 /\ NoThreads

NextHeaders == \E n \in Names : HeadersFor(n)

SpecHeaders == InitHeaders /\ [][NextHeaders]_vars

(***************************************************************************)
(* CloudFilesStorageFile (lines 307-370): the stream _open returns for     *)
(* name.  Its size and file properties go through the client's             *)
(* _get_cloud_obj, that is through FetchAttempt; StreamFetched is the code *)
(* that follows the fetch.  The object read is not replaced while the      *)
(* stream lives: get() hands back its total_bytes bytes.                   *)
(***************************************************************************)
StreamOps == { "stream.size", "stream.file", "stream.read", "stream.chunks" }

\* AtEnd that never holds: read without the test of lines 362-363.
AtEndNever(pos, size) == FALSE

\* AtEnd with > for == at line 362.
AtEndStrict(pos, size) == pos > size

\* line 362: self._pos == self.size
AtEnd(pos, size) == pos = size

\* The caller starts a property's fetch: _get_cloud_obj(self.name).
StartFetch(w) ==
  /\ pc' = "fetch" /\ want' = w
  /\ loop' = NewLoop("fetch") /\ obs' = NewObs
  /\ result' = NoResult /\ data' = 0

Return(n) ==
  /\ pc' = "done" /\ want' = "none"
  /\ result' = [NoResult EXCEPT !.kind = "return"] /\ data' = n

\* lines 365-366: num_bytes is cut to what is left; 0 means no limit.
Clamp(nb, pos, size) ==
  IF nb # 0 /\ pos + nb > size THEN size - pos ELSE nb

\* lines 362-368 of read(nb) once self.size is known to be size; l and o are
\* the loop and observer to keep when no fetch starts.
ReadSized(nb, size, l, o) ==
  IF AtEnd(_pos, size)
    THEN Return(0) /\ loop' = l /\ obs' = o /\ num_bytes' = nb
  ELSE /\ num_bytes' = Clamp(nb, _pos, size)
       /\ IF _file
            THEN /\ pc' = "get" /\ want' = "none" /\ result' = NoResult
                 /\ data' = 0 /\ loop' = l /\ obs' = o
            ELSE StartFetch("file")

\* _get_size (lines 315-318).
StreamSize ==
  /\ Idle
  /\ op' = "stream.size" /\ gets' = 0 /\ cloud_obj' = Absent
  /\ IF _size # Unsized
       THEN Return(_size) /\ loop' = NoLoop /\ obs' = NewObs
       ELSE StartFetch("size")
  /\ UNCHANGED << config, _container, _container_public_uri, remote, name,
                  saveVars, history, ctorVars, raceVars, _size, _file, _pos,
                  total_bytes, num_bytes >>

\* _get_file (lines 324-328) read by a caller.
StreamFile ==
  /\ Idle
  /\ op' = "stream.file" /\ gets' = 0 /\ cloud_obj' = Absent
  /\ IF _file
       THEN Return(0) /\ loop' = NoLoop /\ obs' = NewObs
       ELSE StartFetch("file")
  /\ UNCHANGED << config, _container, _container_public_uri, remote, name,
                  saveVars, history, ctorVars, raceVars, _size, _file, _pos,
                  total_bytes, num_bytes >>

\* read (lines 361-370) up to its first remote call; self._pos is evaluated
\* first and raises AttributeError while the attribute is not set.
StreamRead(nb) ==
  /\ Idle
  /\ op' = "stream.read" /\ gets' = 0 /\ cloud_obj' = Absent
  /\ IF _pos = NoPos
       THEN /\ pc' = "done" /\ want' = "none" /\ data' = 0
            /\ result' = [NoResult EXCEPT !.kind = "raise",
                                          !.exc = "AttributeError"]
            /\ loop' = NoLoop /\ obs' = NewObs /\ num_bytes' = nb
     ELSE IF _size = Unsized
       THEN StartFetch("size") /\ num_bytes' = nb
     ELSE ReadSized(nb, _size, NoLoop, NewObs)
  /\ UNCHANGED << config, _container, _container_public_uri, remote, name,
                  saveVars, history, ctorVars, raceVars, _size, _file, _pos,
                  total_bytes >>

\* chunks (lines 342-359) up to its first remote call: self.seek(0) reads
\* self.file; the cloud object has no seek, the AttributeError is passed over.
StreamChunks ==
  /\ Idle
  /\ op' = "stream.chunks" /\ gets' = 0 /\ cloud_obj' = Absent
  /\ IF _file
       THEN /\ pc' = "chunks" /\ want' = "none" /\ result' = NoResult
            /\ data' = 0 /\ loop' = NoLoop /\ obs' = NewObs
       ELSE StartFetch("file")
  /\ UNCHANGED << config, _container, _container_public_uri, remote, name,
                  saveVars, history, ctorVars, raceVars, _size, _file, _pos,
                  total_bytes, num_bytes >>

\* The code after the fetch of a property: lines 317-318 for size, lines
\* 326-328 for file, then the rest of the operation that asked for it.
StreamFetched ==
  /\ pc = "fetched" /\ op \in StreamOps
  /\ IF loop.end = "raise"
       THEN /\ pc' = "done" /\ want' = "none" /\ data' = 0
            /\ result' = [NoResult EXCEPT !.kind = "raise", !.exc = loop.last]
            /\ UNCHANGED << loop, obs, _size, _file, _pos, num_bytes >>
     ELSE IF want = "size"
       THEN /\ _size' = total_bytes
            /\ UNCHANGED << _file, _pos >>
            /\ IF op = "stream.read"
                 THEN ReadSized(num_bytes, total_bytes, loop, obs)
                 ELSE Return(total_bytes) /\ UNCHANGED << loop, obs, num_bytes >>
     ELSE /\ _file' = TRUE /\ _pos' = 0
          /\ UNCHANGED << _size, loop, obs, num_bytes >>
          /\ IF op = "stream.file" THEN Return(0)
             ELSE /\ pc' = IF op = "stream.read" THEN "get" ELSE "chunks"
                  /\ want' = "none" /\ result' = NoResult /\ data' = 0
  /\ UNCHANGED << config, _container, _container_public_uri, remote, op, name,
                  saveVars, cloud_obj, history, ctorVars, raceVars, total_bytes,
                  gets >>

\* read, lines 368-370: data = self.file.get(); self._pos += len(data).
StreamGet ==
  /\ pc = "get"
  /\ gets' = gets + 1
  /\ \E e \in { "ok" } \cup Failures :
       IF e = "ok"
         THEN Return(total_bytes) /\ _pos' = _pos + total_bytes
         ELSE /\ pc' = "done" /\ want' = "none" /\ data' = 0
              /\ result' = [NoResult EXCEPT !.kind = "raise", !.exc = e]
              /\ _pos' = _pos
  /\ UNCHANGED << config, _container, _container_public_uri, remote, op, name,
                  saveVars, loop, obs, cloud_obj, history, ctorVars, raceVars,
                  _size, _file, total_bytes, num_bytes >>

\* chunks, lines 355-359: one get(chunk_size=...) and the test of its answer.
StreamChunk ==
  /\ pc = "chunks"
  /\ gets' = gets + 1
  /\ \E e \in (IF gets < MaxChunks THEN { "data" } ELSE {})
                \cup { "empty" } \cup Failures :
       IF e = "data"
         THEN pc' = "chunks" /\ UNCHANGED << want, result, data >>
       ELSE IF e = "empty"
         THEN Return(0)
       ELSE /\ pc' = "done" /\ want' = "none" /\ data' = 0
            /\ result' = [NoResult EXCEPT !.kind = "raise", !.exc = e]
  /\ UNCHANGED << config, _container, _container_public_uri, remote, op, name,
                  saveVars, loop, obs, cloud_obj, history, ctorVars, raceVars,
                  _size, _file, _pos, total_bytes, num_bytes >>

InitStream ==
  /\ max_retries \in 0 .. MaxRetriesBound
  /\ use_ssl = FALSE
  /\ container_name = "media"
  /\ header_patterns = <<>>
  /\ _container = NoAttr
  /\ _container_public_uri = NoUri
  /\ name \in Names
  /\ \E present \in BOOLEAN :
       remote = [c \in Containers |-> [n \in Names |->
                   IF present /\ n = name THEN 1 ELSE Absent]]
  /\ total_bytes \in 0 .. MaxBytes
  /\ cdn_ttl = [c \in Containers |-> 0]
  /\ pc = "idle" /\ op = "none"
  /\ content = <<>> /\ content_pos = 0 /\ content_closed = FALSE
  /\ etag = 0 /\ upload = FALSE
  /\ loop = NoLoop /\ obs = NewObs /\ cloud_obj = Absent
  /\ result = NoResult /\ uploads = 0 /\ sent = NoSent
  /\ resolveCalls = 0 /\ resolveFails = 0 /\ setCalled = FALSE
  /\ Constructed /\ StreamNew /\ NoThreads

NextStream ==
  \/ StreamSize
  \/ StreamFile
  \/ \E nb \in 0 .. MaxBytes + 1 : StreamRead(nb)
  \/ StreamChunks
  \/ FetchAttempt
  \/ StreamFetched
  \/ StreamGet
  \/ StreamChunk

SpecStream == InitStream /\ [][NextStream]_vars

(***************************************************************************)
(* CloudFilesStorage.__init__ (lines 44-65) over the class attributes of   *)
(* lines 35-42, which hold the CUMULUS settings.  An omitted argument is   *)
(* None; an omitted max_retries is NoRetries.                              *)
(***************************************************************************)
NoRetries == -1

\* pyrax.set_credentials(self.username, self.api_key), line 65: it
\* authenticates, and cannot succeed without both credentials.
CredentialOutcomes(u, k) ==
  IF u = None \/ k = None THEN { "AuthenticationFailed" }
                          ELSE { "ok", "AuthenticationFailed" }

Construct(u, k, c, mr, uri) ==
  /\ pc = "new"
  /\ op' = "__init__"
  /\ username' = IF u # None THEN u ELSE username
  /\ api_key' = IF k # None THEN k ELSE api_key
  /\ container_name' = IF c # None THEN c ELSE container_name
  /\ max_retries' = IF mr # NoRetries THEN mr ELSE max_retries
  /\ _container_public_uri' =
       IF uri \/ settings_uri THEN ExplicitUri ELSE _container_public_uri
  /\ \E e \in CredentialOutcomes(username', api_key') :
       IF e = "ok"
         THEN pc' = "idle" /\ result' = [NoResult EXCEPT !.kind = "return"]
         ELSE pc' = "failed"
              /\ result' = [NoResult EXCEPT !.kind = "raise", !.exc = e]
  /\ UNCHANGED << use_ssl, header_patterns, cdn_ttl, _container, remote, name,
                  saveVars, loop, obs, cloud_obj, history, settings_uri,
                  streamVars, raceVars >>

InitConstruct ==
  /\ max_retries \in 0 .. MaxRetriesBound
  /\ use_ssl \in BOOLEAN
  /\ container_name \in { None, "media" }
  /\ username \in { None, "user" }
  /\ api_key \in { None, "key" }
  /\ settings_uri \in BOOLEAN
  /\ header_patterns = <<>>
  /\ _container = NoAttr
  /\ _container_public_uri = NoUri
  /\ remote = [c \in Containers |-> [n \in Names |-> Absent]]
  /\ cdn_ttl = [c \in Containers |-> 0]
  /\ pc = "new" /\ op = "none" /\ name = <<>>
  /\ content = <<>> /\ content_pos = 0 /\ content_closed = FALSE
  /\ etag = 0 /\ upload = FALSE
  /\ loop = NoLoop /\ obs = NewObs /\ cloud_obj = Absent
  /\ result = NoResult /\ uploads = 0 /\ sent = NoSent
  /\ resolveCalls = 0 /\ resolveFails = 0 /\ setCalled = FALSE
  /\ StreamNew /\ total_bytes = 0 /\ NoThreads

NextConstruct ==
  \E u \in { None, "user" }, k \in { None, "key" }, c \in { None, "media" },
     mr \in { NoRetries } \cup 0 .. MaxRetriesBound, uri \in BOOLEAN :
       Construct(u, k, c, mr, uri)

SpecConstruct == InitConstruct /\ [][NextConstruct]_vars

(***************************************************************************)
(* Two threads on one client, each reading once the container property     *)
(* (_get_container, lines 78-81) or container_url (lines 95-102).  The     *)
(* code takes no lock, so every line is a step of its own.                 *)
(***************************************************************************)
ThreadOps == { "container", "container_url" }

Finished(t) == tpc[t] \in { "done", "raised" }

Running(t) == tpc[t] # "off" /\ ~Finished(t)

threadFrame ==
  << config, remote, pc, op, name, saveVars, loop, obs, cloud_obj, result,
     setCalled, ctorVars, streamVars >>

\* The thread calls the property; overlap records that another thread is
\* inside a property at that moment.
ThreadBegin(t, k) ==
  /\ tpc[t] = "off"
  /\ top' = [top EXCEPT ![t] = k]
  /\ tpc' = [tpc EXCEPT ![t] = IF k = "container_url" THEN "url.test"
                                                      ELSE "check"]
  /\ overlap' = (overlap \/ \E u \in Threads \ { t } : Running(u))
  /\ UNCHANGED << threadFrame, _container, _container_public_uri,
                  resolveCalls, resolveFails, tret >>

\* line 97: if not hasattr(self, '_container_public_uri')
ThreadUrlTest(t) ==
  /\ tpc[t] = "url.test"
  /\ tpc' = [tpc EXCEPT ![t] = IF _container_public_uri # NoUri
                                 THEN "url.return" ELSE "check"]
  /\ UNCHANGED << threadFrame, _container, _container_public_uri,
                  resolveCalls, resolveFails, top, tret, overlap >>

\* line 79: if not hasattr(self, '_container')
ThreadCheck(t) ==
  /\ tpc[t] = "check"
  /\ tpc' = [tpc EXCEPT ![t] = IF HasContainer THEN "return" ELSE "resolve"]
  /\ UNCHANGED << threadFrame, _container, _container_public_uri,
                  resolveCalls, resolveFails, top, tret, overlap >>

\* ThreadResolve that does not keep the handle it resolved.
ThreadResolveNoCache(t) ==
  /\ tpc[t] = "resolve"
  /\ resolveCalls' = resolveCalls + 1
  /\ \E r \in (IF resolveFails < MaxResolveFail THEN { "ok" } \cup Failures
                                                ELSE { "ok" }) :
       IF r = "ok"
         THEN /\ _container' = _container
              /\ tpc' = [tpc EXCEPT ![t] = "return"]
              /\ UNCHANGED resolveFails
         ELSE /\ resolveFails' = resolveFails + 1
              /\ tpc' = [tpc EXCEPT ![t] = "raised"]
              /\ UNCHANGED _container
  /\ UNCHANGED << threadFrame, _container_public_uri, top, tret, overlap >>

\* line 80: self._container = pyrax.cloudfiles.get_container(...)
ThreadResolve(t) ==
  /\ tpc[t] = "resolve"
  /\ resolveCalls' = resolveCalls + 1
  /\ \E r \in (IF resolveFails < MaxResolveFail THEN { "ok" } \cup Failures
                                                ELSE { "ok" }) :
       IF r = "ok"
         THEN /\ _container' = Resolved(container_name, resolveCalls + 1)
              /\ tpc' = [tpc EXCEPT ![t] = "return"]
              /\ UNCHANGED resolveFails
         ELSE /\ resolveFails' = resolveFails + 1
              /\ tpc' = [tpc EXCEPT ![t] = "raised"]
              /\ UNCHANGED _container
  /\ UNCHANGED << threadFrame, _container_public_uri, top, tret, overlap >>

\* line 81: return self._container
ThreadReturn(t) ==
  /\ tpc[t] = "return"
  /\ tret' = [tret EXCEPT ![t] = _container]
  /\ tpc' = [tpc EXCEPT ![t] = IF top[t] = "container_url" THEN "url.assign"
                                                           ELSE "done"]
  /\ UNCHANGED << threadFrame, _container, _container_public_uri,
                  resolveCalls, resolveFails, top, overlap >>

\* lines 98-101: self._container_public_uri = <the handle's CDN URI>
ThreadUrlAssign(t) ==
  /\ tpc[t] = "url.assign"
  /\ _container_public_uri' = CdnUri(tret[t])
  /\ tpc' = [tpc EXCEPT ![t] = "url.return"]
  /\ UNCHANGED << threadFrame, _container, resolveCalls, resolveFails, top,
                  tret, overlap >>

\* line 102: return self._container_public_uri; tret keeps the handle the
\* returned URI was read from.
ThreadUrlReturn(t) ==
  /\ tpc[t] = "url.return"
  /\ tret' = [tret EXCEPT ![t] = _container_public_uri.h]
  /\ tpc' = [tpc EXCEPT ![t] = "done"]
  /\ UNCHANGED << threadFrame, _container, _container_public_uri,
                  resolveCalls, resolveFails, top, overlap >>

InitRace ==
  /\ max_retries = 0
  /\ use_ssl \in BOOLEAN
  /\ container_name = "media"
  /\ header_patterns = <<>>
  /\ _container = NoAttr
  /\ _container_public_uri = NoUri
  /\ remote = [c \in Containers |-> [n \in Names |-> Absent]]
  /\ cdn_ttl = [c \in Containers |-> 0]
  /\ pc = "idle" /\ op = "none" /\ name = <<>>
  /\ content = <<>> /\ content_pos = 0 /\ content_closed = FALSE
  /\ etag = 0 /\ upload = FALSE
  /\ loop = NoLoop /\ obs = NewObs /\ cloud_obj = Absent
  /\ result = NoResult /\ uploads = 0 /\ sent = NoSent
  /\ resolveCalls = 0 /\ resolveFails = 0 /\ setCalled = FALSE
  /\ Constructed /\ StreamNew /\ total_bytes = 0 /\ NoThreads

NextRace ==
  \E t \in Threads :
    \/ \E k \in ThreadOps : ThreadBegin(t, k)
    \/ ThreadUrlTest(t)
    \/ ThreadCheck(t)
    \/ ThreadResolve(t)
    \/ ThreadReturn(t)
    \/ ThreadUrlAssign(t)
    \/ ThreadUrlReturn(t)

SpecRace == InitRace /\ [][NextRace]_vars

(***************************************************************************)
(* Properties.  In the retry loops "transient" is what the loop's own      *)
(* except clause retries, Caught(loop.kind); obs counts the attempts made  *)
(* and the transient failures met by the running loop.                     *)
(***************************************************************************)

\* C1: delete returns normally as soon as the remote store answers that the
\* name does not exist, also after transient failures of the same call, and
\* the call makes no attempt after that answer.
C1_DeleteNotFoundReturns ==
  /\ [](loop.kind = "delete" /\ loop.last = "NoSuchObject"
          => pc = "done" /\ loop.end = "ok" /\ result.kind = "return")
  /\ [][loop.kind = "delete" /\ loop.last = "NoSuchObject"
          => obs'.attempts \in { obs.attempts, 0 }]_vars

C1_Witness ==
  /\ op = "delete" /\ pc = "done" /\ loop.last = "NoSuchObject"
  /\ obs.failures >= 1 /\ obs.attempts = obs.failures + 1
  /\ result.kind = "return"

\* C2: save reaches the upload step only if the metadata fetch found no
\* object or reported a checksum different from the local one; when the
\* fetch reports the local checksum, save issues no upload call and
\* returns the name.
C2_UploadOnlyIfDifferent ==
  /\ op = "save" /\ (pc = "upload" \/ uploads > 0)
       => cloud_obj = Absent \/ cloud_obj # Checksum(content)
  /\ op = "save" /\ pc = "done" /\ cloud_obj = Checksum(content)
       => uploads = 0 /\ result.kind = "return" /\ result.name = name

C2_Witness ==
  /\ op = "save" /\ pc = "done" /\ cloud_obj = Checksum(content)
  /\ uploads = 0 /\ result.kind = "return" /\ result.name = name

\* C3 as stated: when the upload step is reached and no upload attempt fails
\* transiently, save issues one upload call with the local checksum and
\* returns the name.
C3_Original ==
  op = "save" /\ pc = "done" /\ loop.kind = "upload" /\ obs.failures = 0
    => /\ uploads = 1
       /\ sent.etag = Checksum(content)
       /\ result.kind = "return" /\ result.name = name

\* C3 amended: when the metadata fetch reports no object or a different
\* checksum and no upload attempt fails transiently, save issues exactly one
\* upload call, carrying the name and the local checksum; save returns the
\* name if that call succeeds and raises the call's error if it does not.
C3_OneUpload ==
  op = "save" /\ pc = "done" /\ loop.kind = "upload" /\ obs.failures = 0
    => /\ cloud_obj = Absent \/ cloud_obj # Checksum(content)
       /\ uploads = 1 /\ obs.attempts = 1
       /\ sent.etag = Checksum(content) /\ sent.name = name
       /\ loop.last = "ok" => result.kind = "return" /\ result.name = name
       /\ loop.last # "ok" => result.kind = "raise" /\ result.exc = loop.last

C3_Witness ==
  /\ op = "save" /\ pc = "done" /\ loop.kind = "upload" /\ obs.failures = 0
  /\ cloud_obj \in 1 .. NumSums /\ cloud_obj # Checksum(content)
  /\ uploads = 1 /\ result.kind = "return" /\ result.name = name
  /\ remote[_container.name][name] = Checksum(content)

\* C4: a retry loop tolerates max_retries transient failures: while it has
\* met at most max_retries of them it keeps running, and a success then
\* ends it with success; the failure number max_retries + 1 ends it by
\* raising that failure; it never makes more than max_retries + 1 attempts
\* and none after it ended.
C4_RetryBound ==
  /\ [](/\ obs.attempts <= max_retries + 1
        /\ obs.failures <= max_retries + 1
        /\ loop.last = "ok" => loop.end = "ok"
        /\ loop.last \in Caught(loop.kind) /\ obs.failures <= max_retries
             => loop.end = "running"
        /\ obs.failures = max_retries + 1
             => loop.end = "raise" /\ loop.last \in Caught(loop.kind)
        /\ pc = "done" /\ loop.end = "ok" => result.kind = "return"
        /\ pc = "done" /\ loop.end = "raise" /\ loop.last \in Caught(loop.kind)
             => result.kind = "raise" /\ result.exc = loop.last)
  /\ [][loop.end \in { "ok", "raise" }
          => obs'.attempts \in { obs.attempts, 0 }]_vars

C4_Witness ==
  /\ loop.kind = "upload" /\ pc = "done" /\ max_retries >= 1
  /\ obs.failures = max_retries /\ obs.attempts = max_retries + 1
  /\ loop.end = "ok" /\ result.kind = "return"

\* C5 as stated: when a retry loop has ended, in success or by exhausting
\* its retries, the number of logged attempts equals the number of
\* transient failures it met.
C5_Original ==
  loop.end \in { "ok", "raise" } => loop.logged = obs.failures

\* C5 amended: a retry loop logs every transient failure it retries and not
\* the one it raises: when it ends otherwise than by exhausting its retries
\* the number logged equals the number of transient failures met; when it
\* ends by exhausting its retries the number logged is max_retries, one less
\* than the failures met.
C5_LoggedFailures ==
  /\ loop.end = "raise" /\ loop.last \in Caught(loop.kind)
       => loop.logged = max_retries /\ obs.failures = loop.logged + 1
  /\ loop.end \in { "ok", "raise" } /\ loop.last \notin Caught(loop.kind)
       => loop.logged = obs.failures
  /\ loop.logged = loop.tries

C5_Witness ==
  /\ loop.kind = "fetch" /\ loop.end = "raise" /\ loop.last \in Caught("fetch")
  /\ loop.logged >= 1 /\ obs.failures = loop.logged + 1

\* C6: a failure the loop's except clause does not retry ends the loop the
\* first time it occurs, whatever retries remain: the step that meets it
\* leaves the retry counter and the log alone, and no attempt follows.
C6_FatalEndsLoop ==
  /\ [](loop.last \notin Caught(loop.kind) \cup { "ok", "none" }
          => loop.end \in { "ok", "raise" } /\ pc \in { "fetched", "done" })
  /\ [][loop'.last \notin Caught(loop'.kind) \cup { "ok", "none" }
          => /\ obs'.attempts = obs.attempts + 1
                  => loop'.tries = loop.tries /\ loop'.logged = loop.logged
             /\ obs'.attempts = obs.attempts
                  => loop'.tries = loop.tries]_vars
  /\ [][loop.last \notin Caught(loop.kind) \cup { "ok", "none" }
          => obs'.attempts \in { obs.attempts, 0 }]_vars

C6_Witness ==
  /\ loop.kind = "fetch" /\ loop.last = "Other" /\ loop.end = "raise"
  /\ loop.tries >= 1 /\ loop.tries < max_retries
  /\ obs.attempts = loop.tries + 1

\* C7: exists answers True exactly when the metadata fetch succeeded, False
\* exactly when it ended in NoSuchObject, and raises the fetch's error in
\* every other case.
C7_ExistsResult ==
  op = "exists" /\ pc = "done"
    => /\ (result.kind = "return" /\ result.bool) <=> loop.end = "ok"
       /\ (result.kind = "return" /\ ~result.bool)
            <=> (loop.end = "raise" /\ loop.last = "NoSuchObject")
       /\ (result.kind = "raise")
            <=> (loop.end = "raise" /\ loop.last # "NoSuchObject")
       /\ result.kind = "raise" => result.exc = loop.last
       /\ result.kind \in { "return", "raise" }

C7_Witness ==
  /\ op = "exists" /\ pc = "done" /\ result.kind = "raise"
  /\ result.exc \in Transport /\ obs.failures = max_retries + 1

\* C8: the headers computed for a name hold exactly the keys set by some
\* rule whose pattern matches the name, each with the value given by the
\* last such rule of the table; the table is never modified.
C8_HeadersLastMatchWins ==
  /\ [](op = "_headers_for" /\ pc = "done" =>
          /\ result.kind = "return"
          /\ DOMAIN result.headers \subseteq HeaderKeys
          /\ \A k \in HeaderKeys :
               LET S == { i \in 1 .. Len(header_patterns) :
                            /\ Match(header_patterns[i][1], name)
                            /\ k \in DOMAIN header_patterns[i][2] }
               IN  IF S = {} THEN k \notin DOMAIN result.headers
                   ELSE LET last == CHOOSE i \in S : \A j \in S : j <= i
                        IN  /\ k \in DOMAIN result.headers
                            /\ result.headers[k] = header_patterns[last][2][k])
  /\ [][header_patterns' = header_patterns]_vars

C8_Witness ==
  /\ op = "_headers_for" /\ pc = "done" /\ name = <<"a", "/", "b">>
  /\ header_patterns = << << <<"a">>, [X |-> 1] >>,
                          << <<"a", "/">>, [X |-> 2, Y |-> 3] >> >>
  /\ result.headers = [X |-> 2, Y |-> 3]

\* C9: listdir returns an empty first element; its second element is every
\* object name of the container for the empty path, and otherwise the
\* object names that start with the path followed by the separator (the
\* path itself when it already ends with the separator).
C9_ListdirPrefix ==
  op = "listdir" /\ pc = "done" /\ result.kind = "return"
    => /\ result.dirs = {}
       /\ LET present == { n \in Names : remote[_container.name][n] # Absent }
          IN  IF name = <<>> THEN result.files = present
              ELSE LET q == IF name[Len(name)] = Sep THEN name
                                                     ELSE name \o << Sep >>
                   IN  result.files =
                         { n \in present :
                             /\ Len(n) >= Len(q)
                             /\ \A i \in 1 .. Len(q) : n[i] = q[i] }

C9_Witness ==
  /\ op = "listdir" /\ pc = "done" /\ result.kind = "return"
  /\ name = <<"a">>
  /\ remote[_container.name][<<"a", "b">>] # Absent
  /\ result.files = { <<"a", "/", "b">> }

\* C10 as stated: without a call of _set_container, the remote
\* get_container call is made at most once.
C10_Original ==
  ~setCalled => resolveCalls <= 1

\* C10 amended: without a call of _set_container, get_container succeeds at
\* most once: every call before the successful one failed, the cached handle
\* is the one that call returned, and afterwards no operation calls
\* get_container again or changes the cached handle.
C10_ResolvedOnce ==
  /\ [](~setCalled /\ _container # NoAttr
          => /\ _container = Resolved(container_name, resolveCalls)
             /\ resolveCalls = resolveFails + 1)
  /\ [](~setCalled /\ _container = NoAttr => resolveCalls = resolveFails)
  /\ [][_container # NoAttr /\ ~setCalled'
          => _container' = _container /\ resolveCalls' = resolveCalls]_vars

C10_Witness ==
  /\ ~setCalled /\ _container # NoAttr /\ resolveFails >= 1
  /\ op = "delete" /\ pc = "done" /\ result.kind = "return"
  /\ loop.tries = 0

\* C11: a successful _set_container marks the given container public with
\* the configured TTL, caches the given handle and leaves no public URI
\* cached; a cached public URI changes only by such a replacement, so it is
\* computed at most once between two of them; url answers with the cached
\* URI, which is the URI of the cached handle unless it is the one given at
\* construction, and that one does not survive a replacement.
C11_UriRecomputedAfterSet ==
  /\ [](op = "set_container" /\ pc = "done" /\ result.kind = "return"
          => /\ _container = result.h
             /\ _container_public_uri = NoUri
             /\ cdn_ttl[result.h.name] = TTL)
  /\ [](op = "url" /\ pc = "done" /\ result.kind = "return"
          => result.uri = _container_public_uri /\ result.uri # NoUri)
  /\ [](_container_public_uri.kind \notin { "unset", "explicit" }
          => _container_public_uri = CdnUri(_container))
  /\ [](_container_public_uri.kind = "explicit"
          => \A c \in Containers : cdn_ttl[c] = 0)
  /\ [][(_container_public_uri # NoUri
          /\ ~(op' = "set_container" /\ result'.kind = "return"))
          => _container_public_uri' = _container_public_uri]_vars

C11_Witness ==
  /\ op = "url" /\ pc = "done" /\ result.kind = "return"
  /\ setCalled /\ _container = Given("media")
  /\ result.uri = CdnUri(Given("media"))
  /\ resolveCalls >= 1

\* C17 as stated: a socket-level failure is retried, up to max_retries, by
\* every retry loop.
C17_SocketErrorRetried ==
  loop.last = "socket.error" /\ obs.attempts <= max_retries
    => loop.end = "running"

\* C20: when make_container_public fails in _set_container, the cached
\* handle, the cached public URI and the container's public state are left
\* as they were.
C20_FailedSetChangesNothing ==
  [][op' = "set_container" /\ result'.kind = "raise"
       => /\ _container' = _container
          /\ _container_public_uri' = _container_public_uri
          /\ cdn_ttl' = cdn_ttl]_vars

C20_Witness ==
  /\ op = "set_container" /\ pc = "done" /\ result.kind = "raise"
  /\ _container = Resolved(container_name, resolveCalls)
  /\ _container_public_uri = CdnUri(_container)
  /\ result.h # _container

\* C15 as stated: when an upload attempt of save succeeds, the content
\* stream is closed by the time save returns.
C15_ClosedAfterUpload ==
  op = "save" /\ pc = "done" /\ loop.kind = "upload" /\ loop.end = "ok"
    => content_closed

\* C16: every upload_file call of save, the first one and each retry, starts
\* with the content stream at position 0, wherever the checksum computation
\* or the failed attempt before it left the stream.
C16_AttemptsStartAtZero ==
  /\ [][uploads' = uploads + 1 => content_pos = 0]_vars
  /\ [](pc = "upload" => content_pos = 0)

C16_Witness ==
  /\ op = "save" /\ pc = "done" /\ loop.kind = "upload" /\ loop.end = "ok"
  /\ uploads >= 2 /\ Len(content) >= 1 /\ content_pos = Len(content)

\* C12: once the stream's handle is opened its cursor is set, never
\* decreases and, the size being resolved, never exceeds it; a read that
\* returns moves the cursor by the length of the data it returns, and
\* nothing else moves a set cursor.
C12_CursorBounded ==
  /\ [](_file => _pos # NoPos /\ _pos >= 0)
  /\ [](_file /\ _size # Unsized => _pos <= _size)
  /\ [][_pos # NoPos => _pos' >= _pos]_vars
  /\ [][(op' = "stream.read" /\ pc' = "done" /\ result'.kind = "return")
          => _pos' = _pos + data']_vars
  /\ [][(_pos # NoPos /\ _pos' # _pos)
          => op' = "stream.read" /\ pc' = "done" /\ result'.kind = "return"]_vars

C12_Witness ==
  /\ op = "stream.read" /\ pc = "done" /\ result.kind = "return"
  /\ _file /\ _size >= 1 /\ data = _size /\ _pos = _size /\ gets = 1

\* C13: read on a stream whose size is resolved and whose cursor equals it
\* returns an empty result in one step, with no fetch, no get and no
\* container resolution, and leaves cursor, size and handle as they were.
C13_ReadAtEnd ==
  [][(Idle /\ _size # Unsized /\ _pos = _size /\ op' = "stream.read"
        /\ num_bytes' \in 0 .. MaxBytes + 1)
       => /\ pc' = "done" /\ result'.kind = "return" /\ data' = 0
          /\ gets' = 0 /\ obs'.attempts = 0
          /\ resolveCalls' = resolveCalls
          /\ _pos' = _pos /\ _size' = _size /\ _file' = _file]_vars

C13_Witness ==
  /\ op = "stream.read" /\ pc = "done" /\ result.kind = "return"
  /\ _file /\ _size = MaxBytes /\ _pos = _size /\ data = 0 /\ gets = 0
  /\ num_bytes = 1

\* C18 as stated: read never fails for want of an opened handle; called on
\* a new stream it opens the handle and returns data.
C18_FirstReadOpens ==
  ~(op = "stream.read" /\ pc = "done" /\ result.kind = "raise"
      /\ result.exc = "AttributeError")

\* C14 as stated: no constructed client lacks its username, key or
\* container name; construction with one of them absent fails.
C14_NoInstanceWithoutConfig ==
  op = "__init__" /\ pc = "idle"
    => username # None /\ api_key # None /\ container_name # None

\* C19 as stated: when no two property reads overlap, get_container is
\* invoked exactly once for the instance.
C19_Original ==
  (~overlap /\ \A t \in Threads : Finished(t)) => resolveCalls = 1

\* C19: when no two property reads overlap, get_container succeeds at most
\* once for the instance, is invoked again only after a failure, and the
\* threads that return got the same handle; two successful resolutions, or
\* two threads holding different handles, happen only when reads overlap.
C19_SerializedResolvesOnce ==
  /\ (~overlap => resolveCalls - resolveFails <= 1)
  /\ (~overlap => \A t, u \in Threads :
                    tpc[t] = "done" /\ tpc[u] = "done" => tret[t] = tret[u])
  /\ (~overlap /\ (\A t \in Threads : tpc[t] = "done") => resolveCalls = 1)

C19_Witness ==
  /\ overlap /\ \A t \in Threads : tpc[t] = "done"
  /\ resolveCalls = 2 /\ resolveFails = 0
  /\ tret[1] # tret[2] /\ tret[1] # NoAttr /\ tret[2] # NoAttr

====
